---------------------------- MODULE Spec2Model ----------------------------
(***************************************************************************)
(* A model of the weather pipeline of weather_analyse: the month fetcher   *)
(* and the year orchestrator of fetch.py, and the three aggregates of      *)
(* analyse.py.                                                             *)
(*                                                                         *)
(* Texts.  A text (a Python str) is a sequence of glyphs, each glyph a     *)
(* TLA+ string.  ASCII characters stand for themselves; the CJK glyphs     *)
(* and the degree sign the program looks for are named:                    *)
(*     "nian" = U+5E74 (year), "yue" = U+6708 (month), "ri" = U+65E5 (day),*)
(*     "degC" = U+2103, "ji" = U+7EA7 (force level), and "qing", "yun",    *)
(*     "yin", "bei", "nan", "feng", "wei" for glyphs of weather and wind   *)
(*     labels.                                                             *)
(* None (Python's None, pandas' NaN for an empty cell) is the one-element  *)
(* sequence <<"None">>, which is no text.                                  *)
(***************************************************************************)
EXTENDS Integers, Sequences, FiniteSets, TLC

VARIABLES
    now,    \* the clock: [year, month] of datetime.datetime.now()
    disk,   \* the dataset file: [exists, rows]
    wb,     \* the caller's in-memory workbook: its sheet's rows
    pc,     \* position of the running operation
    loop,   \* the year orchestrator: [existed, year, month]
    log,    \* the orchestrator run's events, in order
    last,   \* the last call of the month fetcher: its inputs and outcome
    agg     \* the last aggregate computed

vars == <<now, disk, wb, pc, loop, log, last, agg>>

None == <<"None">>

Digits == {"0", "1", "2", "3", "4", "5", "6", "7", "8", "9"}

Whitespace == {" ", "\n", "\t"}

DigitVal(c) ==
    CASE c = "0" -> 0 [] c = "1" -> 1 [] c = "2" -> 2 [] c = "3" -> 3
      [] c = "4" -> 4 [] c = "5" -> 5 [] c = "6" -> 6 [] c = "7" -> 7
      [] c = "8" -> 8 [] c = "9" -> 9

DigitChar(d) ==
    CASE d = 0 -> "0" [] d = 1 -> "1" [] d = 2 -> "2" [] d = 3 -> "3"
      [] d = 4 -> "4" [] d = 5 -> "5" [] d = 6 -> "6" [] d = 7 -> "7"
      [] d = 8 -> "8" [] d = 9 -> "9"

\* int(s) for a text of decimal digits.
RECURSIVE StrToInt(_)
StrToInt(s) ==
    IF Len(s) = 0 THEN 0
    ELSE 10 * StrToInt(SubSeq(s, 1, Len(s) - 1)) + DigitVal(s[Len(s)])

\* str(n) for a natural number.
RECURSIVE IntToStr(_)
IntToStr(n) ==
    IF n < 10 THEN <<DigitChar(n)>>
    ELSE IntToStr(n \div 10) \o <<DigitChar(n % 10)>>

\* str.lstrip(chars)
RECURSIVE LStrip(_, _)
LStrip(s, chars) ==
    IF Len(s) > 0 /\ s[1] \in chars THEN LStrip(Tail(s), chars) ELSE s

\* str.rstrip(chars)
RECURSIVE RStrip(_, _)
RStrip(s, chars) ==
    IF Len(s) > 0 /\ s[Len(s)] \in chars
    THEN RStrip(SubSeq(s, 1, Len(s) - 1), chars)
    ELSE s

\* str.strip()
Strip(s) == LStrip(RStrip(s, Whitespace), Whitespace)

\* The first index of glyph c in s (s holds one).
FirstIndex(s, c) ==
    CHOOSE k \in 1..Len(s) : s[k] = c /\ \A j \in 1..(k - 1) : s[j] # c

\* str.split(sep) for a one-glyph separator
RECURSIVE Split(_, _)
SplitAt(s, sep, i) ==
    <<SubSeq(s, 1, i - 1)>> \o Split(SubSeq(s, i + 1, Len(s)), sep)

Split(s, sep) ==
    IF \A i \in 1..Len(s) : s[i] # sep THEN <<s>>
    ELSE SplitAt(s, sep, FirstIndex(s, sep))

\* The indices of glyph c in s below position hi.
Before(s, c, hi) == {i \in 1..Len(s) : i < hi /\ s[i] = c}

Max(S) == CHOOSE x \in S : \A y \in S : y <= x

\* The last index of glyph c in s below position hi, 0 when there is none.
LastBefore(s, c, hi) ==
    IF Before(s, c, hi) = {} THEN 0 ELSE Max(Before(s, c, hi))

\* The glyphs "." can match from the start: the first line of the text.
FirstLine(s) ==
    IF \A i \in 1..Len(s) : s[i] # "\n" THEN s
    ELSE SubSeq(s, 1, FirstIndex(s, "\n") - 1)

\* The groups of the greedy match with <nian> at i, <yue> at j and <ri> at
\* k; i = 0 when the pattern does not match.
DateGroups(s, i, j, k) ==
    IF i = 0 THEN <<>>
    ELSE <<SubSeq(s, 1, i - 1), SubSeq(s, i + 1, j - 1),
           SubSeq(s, j + 1, k - 1)>>

MatchFromMonth(s, j, k) == DateGroups(s, LastBefore(s, "nian", j), j, k)

MatchFromDay(s, k) == MatchFromMonth(s, LastBefore(s, "yue", k), k)

MatchLine(s) == MatchFromDay(s, LastBefore(s, "ri", Len(s) + 1))

\* re.match('(.*)<nian>(.*)<yue>(.*)<ri>', text): <<>> when there is no
\* match, or the three groups of the greedy match: the last <ri> of the
\* first line, the last <yue> before it, the last <nian> before that.
MatchDate(text) == MatchLine(FirstLine(text))

(***************************************************************************)
(* The sheet.  A row is the list given to sheet.append: nine cells.        *)
(***************************************************************************)
ColYear == 1
ColMonth == 2
ColDay == 3
ColDayWeather == 4
ColNightWeather == 5
ColTempHigh == 6
ColTempLow == 7
ColDayWind == 8
ColNightWind == 9

HeaderRow ==
    << <<"nian">>, <<"yue">>, <<"ri">>, <<"day_weather">>, <<"night_weather">>,
       <<"temp_high">>, <<"temp_low">>, <<"day_wind">>, <<"night_wind">> >>

NoFile == [exists |-> FALSE, rows |-> <<>>]

\* What wb.save writes and load_workbook (or read_excel) reads back of one
\* cell: an empty text is written as an empty cell, which reads as None.
StoredCell(c) == IF c = <<>> THEN None ELSE c

StoredRow(r) == [i \in 1..Len(r) |-> StoredCell(r[i])]

\* wb.save(file_path): the file holding the sheet's rows.
Save(sheet) ==
    [exists |-> TRUE, rows |-> [i \in 1..Len(sheet) |-> StoredRow(sheet[i])]]

(***************************************************************************)
(* Row extraction (the body of the month fetcher's loop).  A row is        *)
(* [tag, cells]: whether it is a bs4 Tag, and the texts of its td cells.   *)
(***************************************************************************)
MinYear == 2011

\* A validation that lets any month of the current year pass.
ValidRequestAnyMonth(year, month, clock) ==
    /\ ~(StrToInt(year) < MinYear \/ StrToInt(year) > clock.year)
    /\ ~(StrToInt(month) < 1 \/ StrToInt(month) > 12)

\* The validation of year and month against the clock.
ValidRequest(year, month, clock) ==
    /\ ~(StrToInt(year) < MinYear \/ StrToInt(year) > clock.year)
    /\ ~(\/ StrToInt(month) < 1
         \/ StrToInt(month) > 12
         \/ (StrToInt(year) = clock.year /\ StrToInt(month) > clock.month))

\* if len(month) == 1: month = '0' + month
PadMonth(month) == IF Len(month) = 1 THEN <<"0">> \o month ELSE month

\* The branch on len(weathers)
WeatherPair(weathers) ==
    IF Len(weathers) = 2
    THEN <<Strip(weathers[1]), Strip(weathers[2])>>
    ELSE << <<>>, <<>> >>

\* weathers = columns[1].text.split('/')
Weathers(cell) == WeatherPair(Split(cell, "/"))

\* A branch that takes the first two of two or more parts.
TemperaturePairOfFirstTwo(temperatures) ==
    IF Len(temperatures) >= 2
    THEN <<RStrip(Strip(temperatures[1]), {"degC"}),
           RStrip(Strip(temperatures[2]), {"degC"})>>
    ELSE << <<>>, <<>> >>

\* The branch on len(temperatures)
TemperaturePair(temperatures) ==
    IF Len(temperatures) = 2
    THEN <<RStrip(Strip(temperatures[1]), {"degC"}),
           RStrip(Strip(temperatures[2]), {"degC"})>>
    ELSE << <<>>, <<>> >>

\* temperatures = columns[2].text.split('/')
Temperatures(cell) == TemperaturePair(Split(cell, "/"))

\* The branch on len(winds)
WindPair(winds) ==
    IF Len(winds) = 2
    THEN <<Strip(winds[1]), Strip(winds[2])>>
    ELSE << <<>>, <<>> >>

\* winds = columns[3].text.split('/')
Winds(cell) == WindPair(Split(cell, "/"))

\* The list given to sheet.append: year and month are the request's (month
\* already padded), w, t and v the pairs of the three categories.
AppendedRow(year, month, day, w, t, v) ==
    <<year, LStrip(month, {"0"}), day, w[1], w[2], t[1], t[2], v[1], v[2]>>

\* The list appended for a row whose date matched and which has its cells.
RowRecord(columns, dates, year, month) ==
    AppendedRow(year, month, LStrip(dates[3], {"0"}), Weathers(columns[2]),
                Temperatures(columns[3]), Winds(columns[4]))

\* The loop body for a Tag with at least one td, dates the match of its
\* first cell.
ExtractColumns(columns, dates, year, month) ==
    IF dates = <<>> THEN [kind |-> "skip", rec |-> <<>>]
    ELSE IF Len(columns) < 4 THEN [kind |-> "raise", rec |-> <<>>]
    ELSE [kind |-> "record", rec |-> RowRecord(columns, dates, year, month)]

\* One pass of the loop body: "record" (a list is appended), "skip" (nothing
\* is appended, the loop goes on) or "raise" (an IndexError leaves the loop:
\* columns[k] of a row with too few td cells).
ExtractRow(row, year, month) ==
    IF ~row.tag THEN [kind |-> "skip", rec |-> <<>>]
    ELSE IF Len(row.cells) < 1 THEN [kind |-> "raise", rec |-> <<>>]
    ELSE ExtractColumns(row.cells, MatchDate(row.cells[1]), year, month)

\* A loop that does not append a list the sheet already holds.
RECURSIVE ProcessRows(_, _, _, _, _)
AfterRowDeduplicating(rows, i, year, month, sheet, r) ==
    IF r.kind = "raise" THEN [sheet |-> sheet, raised |-> TRUE]
    ELSE ProcessRows(rows, i + 1, year, month,
                     IF r.kind = "record"
                            /\ \A k \in 1..Len(sheet) :
                                   StoredRow(sheet[k]) # StoredRow(r.rec)
                     THEN Append(sheet, r.rec) ELSE sheet)

\* for i in range(1, len(rows)): rows[0], the table head, is skipped; i is
\* the 1-based index of the row to process next, r the outcome of row i.
AfterRow(rows, i, year, month, sheet, r) ==
    IF r.kind = "raise" THEN [sheet |-> sheet, raised |-> TRUE]
    ELSE ProcessRows(rows, i + 1, year, month,
                     IF r.kind = "record" THEN Append(sheet, r.rec) ELSE sheet)

ProcessRows(rows, i, year, month, sheet) ==
    IF i > Len(rows) THEN [sheet |-> sheet, raised |-> FALSE]
    ELSE AfterRow(rows, i, year, month, sheet,
                  ExtractRow(rows[i], year, month))

(***************************************************************************)
(* The month fetcher.  A response of the network retrieval is              *)
(* [conn, status, table, rows]: whether requests.get returned at all (it   *)
(* raises ConnectionError otherwise), the status code, whether the body    *)
(* holds an element of class weather-table, and that table's tr rows.      *)
(***************************************************************************)
StatusOK == 200

\* The sheet the fetch appends to, and the file after opening it: for a
\* dataset name the file is created with the header row when absent and
\* loaded otherwise; a Workbook is used as it is.
OpenSheet(form, d, w) ==
    IF form = "name"
    THEN IF ~d.exists
         THEN [sheet |-> <<HeaderRow>>, disk |-> Save(<<HeaderRow>>), wb |-> w,
               events |-> <<"create">>]
         ELSE [sheet |-> d.rows, disk |-> d, wb |-> w, events |-> <<>>]
    ELSE [sheet |-> w, disk |-> d, wb |-> w, events |-> <<>>]

\* The end of the call, p the outcome of the loop over the rows: the save of
\* a named dataset, unless an exception left the loop.
Finish(form, o, p) ==
    IF form = "name"
    THEN [disk |-> IF p.raised THEN o.disk ELSE Save(p.sheet),
          wb |-> o.wb, raised |-> p.raised, net |-> 1,
          events |-> IF p.raised THEN o.events ELSE Append(o.events, "save")]
    ELSE [disk |-> o.disk, wb |-> p.sheet, raised |-> p.raised, net |-> 1,
          events |-> o.events]

\* A retrieval that goes on to the save whatever the status and the body.
RetrieveAndSave(form, year, month, resp, o) ==
    IF ~resp.conn
    THEN [disk |-> o.disk, wb |-> o.wb, raised |-> TRUE, net |-> 1,
          events |-> o.events]
    ELSE Finish(form, o, ProcessRows(resp.rows, 2, year, month, o.sheet))

\* The network retrieval and what follows it, o the opened sheet.
Retrieve(form, year, month, resp, o) ==
    IF ~resp.conn
    THEN [disk |-> o.disk, wb |-> o.wb, raised |-> TRUE, net |-> 1,
          events |-> o.events]
    ELSE IF resp.status # StatusOK \/ ~resp.table
    THEN [disk |-> o.disk, wb |-> o.wb, raised |-> FALSE, net |-> 1,
          events |-> o.events]
    ELSE Finish(form, o, ProcessRows(resp.rows, 2, year, month, o.sheet))

\* fetch_weather_data(file, city, year, month), file a dataset name
\* (form = "name") or the Workbook w (form = "workbook"): the file and the
\* workbook afterwards, whether an exception left the call, the number of
\* network retrievals and the writes of the file, in order.
FetchWeatherData(form, year, month, resp, clock, d, w) ==
    IF ~ValidRequest(year, month, clock)
    THEN [disk |-> d, wb |-> w, raised |-> FALSE, net |-> 0, events |-> <<>>]
    ELSE Retrieve(form, year, PadMonth(month), resp, OpenSheet(form, d, w))

(***************************************************************************)
(* Inputs: the cell texts of the pages, after the site's month pages.      *)
(***************************************************************************)
MaxPageRows == 2    \* data rows of a page
MaxSheetRows == 1   \* data rows a sheet may hold when a fetch starts

\* "2012<nian>03<yue>05<ri>"
DateOK == <<"2", "0", "1", "2", "nian", "0", "3", "yue", "0", "5", "ri">>
\* "2011<nian>7<yue>15<ri>"
DateOther == <<"2", "0", "1", "1", "nian", "7", "yue", "1", "5", "ri">>
\* "2012-03-05"
DateBad == <<"2", "0", "1", "2", "-", "0", "3", "-", "0", "5">>
\* "<qing> / <yun>" and "<yin>/<qing>"
CondOK == <<"qing", " ", "/", " ", "yun">>
CondOther == <<"yin", "/", "qing">>
\* "<qing>": no separator
CondBad == <<"qing">>
\* "10<degC> / 2<degC>" and "0<degC>/-4<degC>"
TempOK == <<"1", "0", "degC", " ", "/", " ", "2", "degC">>
TempOther == <<"0", "degC", "/", "-", "4", "degC">>
\* "10<degC>/2<degC>/1<degC>": three parts
TempBad == <<"1", "0", "degC", "/", "2", "degC", "/", "1", "degC">>
\* "-<degC>/2<degC>": two parts, the first not a number
TempDash == <<"-", "degC", "/", "2", "degC">>
\* "<bei><feng> 3<ji>/<nan><feng> 2<ji>"
WindOK == <<"bei", "feng", " ", "3", "ji", "/", "nan", "feng", " ", "2", "ji">>
\* "<bei><feng> 3<ji>": no separator
WindBad == <<"bei", "feng", " ", "3", "ji">>
\* "<wei><feng>/<nan><feng> 2<ji>": the day part names no force level
WindCalm == <<"wei", "feng", "/", "nan", "feng", " ", "2", "ji">>

\* table.find_all('tr') yields Tag elements only.
Tr(cells) == [tag |-> TRUE, cells |-> cells]

\* The table head: "date", "weather", "temperature", "wind".
HeadTr == Tr(<< <<"ri", "qi">>, <<"tian", "qi">>, <<"qi", "wen">>, <<"feng">> >>)

RowGood == Tr(<<DateOK, CondOK, TempOK, WindOK>>)
RowBadDate == Tr(<<DateBad, CondOK, TempOK, WindOK>>)
RowNoCells == Tr(<<>>)
RowShort == Tr(<<DateOK, CondOK>>)
RowCondBad == Tr(<<DateOK, CondBad, TempOK, WindOK>>)
RowTempBad == Tr(<<DateOK, CondOK, TempBad, WindOK>>)
RowWindBad == Tr(<<DateOK, CondOK, TempOK, WindBad>>)
RowOther == Tr(<<DateOther, CondOther, TempOther, WindCalm>>)
RowDash == Tr(<<DateOK, CondOther, TempDash, WindOK>>)

BasicRows == {RowGood, RowBadDate, RowShort}

AllRows == {RowGood, RowBadDate, RowNoCells, RowShort, RowCondBad,
            RowTempBad, RowWindBad, RowOther}

SeqsUpTo(S, n) == UNION {[1..k -> S] : k \in 0..n}

\* The tr rows of a table: none at all, or the head and up to n data rows.
Tables(rowset, n) == {<<>>} \cup {<<HeadTr>> \o t : t \in SeqsUpTo(rowset, n)}

ConnFail == [conn |-> FALSE, status |-> 0, table |-> FALSE, rows |-> <<>>]
NotFound == [conn |-> TRUE, status |-> 404, table |-> FALSE, rows |-> <<>>]
NoTable == [conn |-> TRUE, status |-> 200, table |-> FALSE, rows |-> <<>>]
Page(rows) == [conn |-> TRUE, status |-> 200, table |-> TRUE, rows |-> rows]
NoResponse == [conn |-> FALSE, status |-> -1, table |-> FALSE, rows |-> <<>>]

Responses(rowset, n) ==
    {ConnFail, NotFound, NoTable} \cup {Page(t) : t \in Tables(rowset, n)}

\* The requests and the clock of Spec: one (year, month) is valid.
Years == {<<"2", "0", "1", "0">>, <<"2", "0", "1", "2">>,
          <<"2", "0", "1", "3">>}
Months == {<<"0">>, <<"3">>, <<"0", "3">>, <<"7">>, <<"1", "3">>}
Clocks == {[year |-> 2012, month |-> 6]}

BasicResponses == Responses(BasicRows, MaxPageRows)

\* The network answers only a request that passed the validation.
Answers(responses, year, month) ==
    IF ValidRequest(year, month, now) THEN responses ELSE {NoResponse}

NoCall ==
    [form |-> "none", year |-> <<>>, month |-> <<>>, resp |-> NoResponse,
     valid |-> FALSE, raised |-> FALSE, net |-> 0, events |-> <<>>,
     diskBefore |-> NoFile, wbBefore |-> <<>>]

NoLoop == [existed |-> FALSE, year |-> <<>>, month |-> 0]

NoAgg == [kind |-> "none", fatal |-> FALSE, at |-> "", rows |-> {}, order |-> <<>>]

DataRows(sheet) == IF Len(sheet) = 0 THEN 0 ELSE Len(sheet) - 1

\* What a call leaves in `last`.  The response is recorded only when the
\* network was consulted.
Called(form, year, month, resp, o) ==
    [form |-> form, year |-> year, month |-> month,
     resp |-> IF o.net = 0 THEN NoResponse ELSE resp,
     valid |-> ValidRequest(year, month, now), raised |-> o.raised,
     net |-> o.net, events |-> o.events, diskBefore |-> disk, wbBefore |-> wb]

(***************************************************************************)
(* Spec: calls of the month fetcher, by dataset name and on the caller's   *)
(* workbook.                                                               *)
(***************************************************************************)
Init ==
    /\ now \in Clocks
    /\ disk = NoFile
    /\ wb = <<HeaderRow>>
    /\ pc = "idle"
    /\ loop = NoLoop
    /\ log = <<>>
    /\ last = NoCall
    /\ agg = NoAgg

\* The assignments of a call with outcome o.
Returned(form, year, month, resp, o) ==
    /\ disk' = o.disk
    /\ wb' = o.wb
    /\ last' = Called(form, year, month, resp, o)

\* fetch_weather_data(name, city, year, month)
FetchByName(year, month, resp) ==
    /\ pc = "idle"
    /\ DataRows(disk.rows) <= MaxSheetRows
    /\ Returned("name", year, month, resp,
                FetchWeatherData("name", year, month, resp, now, disk, wb))
    /\ UNCHANGED <<now, pc, loop, log, agg>>

\* fetch_weather_data(wb, city, year, month)
FetchIntoWorkbook(year, month, resp) ==
    /\ pc = "idle"
    /\ DataRows(wb) <= MaxSheetRows
    /\ Returned("workbook", year, month, resp,
                FetchWeatherData("workbook", year, month, resp, now, disk, wb))
    /\ UNCHANGED <<now, pc, loop, log, agg>>

Next ==
    \E year \in Years, month \in Months :
        \E resp \in Answers(BasicResponses, year, month) :
            \/ FetchByName(year, month, resp)
            \/ FetchIntoWorkbook(year, month, resp)

Spec == Init /\ [][Next]_vars

(***************************************************************************)
(* SpecRows: one call of the month fetcher on a fresh target, over pages   *)
(* of every kind of row, for requests that agree or not with the page.     *)
(***************************************************************************)
RowYears == Years \cup {<<"2", "0", "1", "1">>}
RowClocks == {[year |-> 2011, month |-> 12], [year |-> 2012, month |-> 6]}

AllResponses == Responses(AllRows, MaxPageRows)

InitRows ==
    /\ now \in RowClocks
    /\ disk = NoFile
    /\ wb = <<HeaderRow>>
    /\ pc = "idle"
    /\ loop = NoLoop
    /\ log = <<>>
    /\ last = NoCall
    /\ agg = NoAgg

NextRows ==
    \E year \in RowYears, month \in Months :
        \E resp \in Answers(AllResponses, year, month) :
            \/ last = NoCall /\ FetchByName(year, month, resp)
            \/ last = NoCall /\ FetchIntoWorkbook(year, month, resp)

SpecRows == InitRows /\ [][NextRows]_vars

(***************************************************************************)
(* SpecYear: runs of the year orchestrator.  The log holds the run's       *)
(* events in order: the writes of the file and the calls of the month      *)
(* fetcher, [ev, month].                                                   *)
(***************************************************************************)
LastMonth == 12

Event(ev, month) == [ev |-> ev, month |-> month]

\* The writes a call of the month fetcher made, as events of the log.
WriteEvents(events, month) ==
    [i \in 1..Len(events) |-> Event(events[i], month)]

\* A dataset file left by an earlier fetch of one month.
EarlierFile ==
    FetchWeatherData("name", <<"2", "0", "1", "1">>, <<"3">>,
                     Page(<<HeadTr, RowGood>>),
                     [year |-> 2012, month |-> 6], NoFile, <<>>).disk

YearResponses ==
    {ConnFail, NotFound, NoTable, Page(<<HeadTr, RowGood>>),
     Page(<<HeadTr, RowNoCells>>)}

YearArgs == {<<"2", "0", "1", "0">>, <<"2", "0", "1", "1">>,
             <<"2", "0", "1", "2">>}

InitYear ==
    /\ now \in Clocks
    /\ disk \in {NoFile, EarlierFile}
    /\ wb = <<>>
    /\ pc = "idle"
    /\ loop = NoLoop
    /\ log = <<>>
    /\ last = NoCall
    /\ agg = NoAgg

\* fetch_weather_data_year up to the loop: the file is created with the
\* header row when absent, and loaded otherwise.
YearOpen(year) ==
    /\ pc = "idle"
    /\ loop' = [existed |-> disk.exists, year |-> year, month |-> 1]
    /\ IF ~disk.exists
       THEN /\ wb' = <<HeaderRow>>
            /\ disk' = Save(<<HeaderRow>>)
            /\ log' = <<Event("create", 0)>>
       ELSE /\ wb' = disk.rows
            /\ log' = <<>>
            /\ UNCHANGED disk
    /\ pc' = "loop"
    /\ UNCHANGED <<now, last, agg>>

\* The loop variable after month m, and the position after it.
NextMonth(m) == m + 1

\* One pass of the loop, o the outcome of the call of the month fetcher:
\* an exception that leaves the call leaves the orchestrator too.
YearReturned(form, month, resp, o) ==
    /\ Returned(form, loop.year, month, resp, o)
    /\ log' = log \o <<Event("fetch", loop.month)>>
                  \o WriteEvents(o.events, loop.month)
    /\ IF o.raised
       THEN pc' = "raised" /\ UNCHANGED loop
       ELSE /\ loop' = [loop EXCEPT !.month = NextMonth(loop.month)]
            /\ pc' = IF NextMonth(loop.month) > LastMonth THEN "save"
                     ELSE "loop"
    /\ UNCHANGED <<now, agg>>

\* The call of the loop body with the target given as `form`.
YearCall(form, resp) ==
    /\ pc = "loop"
    /\ YearReturned(form, IntToStr(loop.month), resp,
                    FetchWeatherData(form, loop.year, IntToStr(loop.month),
                                     resp, now, disk, wb))

\* A loop body that hands the month fetcher the dataset name.
YearFetchByName(resp) == YearCall("name", resp)

\* fetch_weather_data(wb, city, year, str(month))
YearFetch(resp) == YearCall("workbook", resp)

\* wb.save(file_path); wb.close()
YearSave ==
    /\ pc = "save"
    /\ disk' = Save(wb)
    /\ log' = Append(log, Event("save", 0))
    /\ pc' = "done"
    /\ UNCHANGED <<now, wb, loop, last, agg>>

NextYear ==
    \/ \E year \in YearArgs : YearOpen(year)
    \/ \E resp \in Answers(YearResponses, loop.year, IntToStr(loop.month)) :
           YearFetch(resp)
    \/ YearSave

SpecYear == InitYear /\ [][NextYear]_vars

(***************************************************************************)
(* The aggregates of analyse.py.  A data frame is the sheet's rows below   *)
(* the header; a missing value (NaN) is None.  A quotient is kept as       *)
(* [num, den], and a mean as [sum, n].                                     *)
(***************************************************************************)
\* pd.read_excel(data_path): the first row names the columns.
DataFrame(d) == Tail(d.rows)

\* The text reads as an integer: digits, after an optional minus sign.
IsInteger(cell) ==
    /\ cell # None
    /\ Len(LStrip(cell, {"-"})) > 0
    /\ Len(cell) - Len(LStrip(cell, {"-"})) <= 1
    /\ \A i \in 1..Len(LStrip(cell, {"-"})) : LStrip(cell, {"-"})[i] \in Digits

IntegerOf(cell) ==
    IF cell[1] = "-" THEN 0 - StrToInt(Tail(cell)) ELSE StrToInt(cell)

\* pd.to_numeric(column, errors='coerce') of one cell, for the texts of the
\* sheets here: an integer, or NaN.
ToNumeric(cell) ==
    IF IsInteger(cell) THEN [nan |-> FALSE, val |-> IntegerOf(cell)]
    ELSE [nan |-> TRUE, val |-> 0]

\* The month and the coerced temperatures of each row.
TemperatureFrame(df) ==
    [i \in 1..Len(df) |->
        [month |-> StrToInt(df[i][ColMonth]),
         high |-> ToNumeric(df[i][ColTempHigh]),
         low |-> ToNumeric(df[i][ColTempLow])]]

\* A row that dropna on the one column alone would keep.
HasLow(r) == ~r.low.nan

\* df.dropna(subset=[high, low]) keeps a row with both values.
HasBoth(r) == ~r.high.nan /\ ~r.low.nan

DropNaTemperatures(frame) == SelectSeq(frame, HasBoth)

RECURSIVE SumValues(_)
SumValues(values) ==
    IF Len(values) = 0 THEN 0 ELSE Head(values).val + SumValues(Tail(values))

\* The present values of a column in the rows of month m.
ValuesOf(frame, m, column) ==
    [i \in 1..Len(SelectSeq(frame, LAMBDA r : r.month = m /\ ~r[column].nan))
        |-> SelectSeq(frame, LAMBDA r : r.month = m /\ ~r[column].nan)[i][column]]

\* mean() of a group's column: NaN is skipped.
MeanOf(values) == [sum |-> SumValues(values), n |-> Len(values)]

\* df.groupby(month)[[high, low]].mean()
MonthlyMeans(frame) ==
    {[month |-> m, high |-> MeanOf(ValuesOf(frame, m, "high")),
      low |-> MeanOf(ValuesOf(frame, m, "low"))] :
        m \in {frame[i].month : i \in 1..Len(frame)}}

\* create_average_month_temperature_graph up to the plot.
AverageMonthTemperature(d) ==
    IF ~d.exists THEN [NoAgg EXCEPT !.kind = "temperature"]
    ELSE [NoAgg EXCEPT !.kind = "temperature",
                       !.rows = MonthlyMeans(DropNaTemperatures(
                                    TemperatureFrame(DataFrame(d))))]

\* ' ' in text raises TypeError for a missing value (a float).
WindForceRaises(text) == text = None

\* extract_wind_force(text): the last of the parts between spaces, None
\* for a text without a space.
ExtractWindForce(text) ==
    IF \E i \in 1..Len(text) : text[i] = " "
    THEN Split(text, " ")[Len(Split(text, " "))]
    ELSE None

\* df[year].nunique(): the distinct values present.
YearsCount(df) == Cardinality({df[i][ColYear] : i \in 1..Len(df)} \ {None})

\* pd.concat of the day and the night slice, as (month, label), and
\* dropna(subset=[label]).
Occurrences(df, day, night) ==
    SelectSeq([i \in 1..Len(df) |->
                   [month |-> StrToInt(df[i][ColMonth]), label |-> day[i]]]
              \o [i \in 1..Len(df) |->
                   [month |-> StrToInt(df[i][ColMonth]), label |-> night[i]]],
              LAMBDA r : r.label # None)

\* groupby([month, label]).size() and the division by years_count.
AnnualCounts(occ, years) ==
    {[month |-> k.month, label |-> k.label,
      count |-> Cardinality({i \in 1..Len(occ) : occ[i] = k}),
      annual |-> [num |-> Cardinality({i \in 1..Len(occ) : occ[i] = k}),
                  den |-> years]] :
        k \in {occ[i] : i \in 1..Len(occ)}}

\* The code point of a glyph: Python compares texts by it.
CodePoint ==
    (" " :> 32) @@ ("-" :> 45) @@ ("0" :> 48) @@ ("1" :> 49) @@ ("2" :> 50)
    @@ ("3" :> 51) @@ ("4" :> 52) @@ ("5" :> 53) @@ ("6" :> 54)
    @@ ("7" :> 55) @@ ("8" :> 56) @@ ("9" :> 57)
    @@ ("le" :> 8804) @@ ("zhong" :> 20013) @@ ("yun" :> 20113)
    @@ ("dao" :> 21040) @@ ("bei" :> 21271) @@ ("nan" :> 21335)
    @@ ("tai" :> 21488) @@ ("xiang" :> 21521) @@ ("duo" :> 22810)
    @@ ("da" :> 22823) @@ ("jia" :> 22841) @@ ("xiao" :> 23567)
    @@ ("wei" :> 24494) @@ ("chi" :> 25345) @@ ("wu" :> 26080)
    @@ ("qing" :> 26228) @@ ("bao" :> 26292) @@ ("ji" :> 32423)
    @@ ("xu" :> 32493) @@ ("yin" :> 38452) @@ ("zhen" :> 38453)
    @@ ("yu" :> 38632) @@ ("xue" :> 38634) @@ ("lei" :> 38647)
    @@ ("mai" :> 38718) @@ ("feng" :> 39118)

\* a < b of two texts.
RECURSIVE TextLess(_, _)
TextLess(a, b) ==
    IF Len(b) = 0 THEN FALSE
    ELSE IF Len(a) = 0 THEN TRUE
    ELSE IF Head(a) # Head(b) THEN CodePoint[Head(a)] < CodePoint[Head(b)]
    ELSE TextLess(Tail(a), Tail(b))

MinText(S) == CHOOSE x \in S : \A y \in S : x = y \/ TextLess(x, y)

\* sorted(...) of distinct texts.
RECURSIVE SortedTexts(_)
SortedFrom(S, m) == <<m>> \o SortedTexts(S \ {m})
SortedTexts(S) == IF S = {} THEN <<>> ELSE SortedFrom(S, MinText(S))

\* Series.unique(): the values in the order of their first appearance.
RECURSIVE Unique(_)
Unique(s) ==
    IF Len(s) = 0 THEN <<>>
    ELSE <<Head(s)>> \o Unique(SelectSeq(Tail(s), LAMBDA x : x # Head(s)))

\* The labels of the month's lines of the grouped table: groupby sorts the
\* lines of a month by label.
LabelsOfMonth(df, m, day, night) ==
    SortedTexts(({day[i] : i \in {j \in 1..Len(df) : df[j][ColMonth] = m}}
                 \cup {night[i] : i \in {j \in 1..Len(df) : df[j][ColMonth] = m}})
                \ {None})

\* The label column of the grouped table: groupby sorts the lines by month
\* (the month cells are texts) and then by label.
RECURSIVE LabelColumn(_, _, _, _)
LabelColumn(df, months, day, night) ==
    IF Len(months) = 0 THEN <<>>
    ELSE LabelsOfMonth(df, Head(months), day, night)
             \o LabelColumn(df, Tail(months), day, night)

\* counts[label].unique() of the grouped table.
UniqueLabels(df, day, night) ==
    Unique(LabelColumn(df,
               SortedTexts({df[i][ColMonth] : i \in 1..Len(df)}),
               day, night))

\* str.isdigit() of a text of at most one glyph, for the glyphs here.
IsDigit(s) == Len(s) > 0 /\ \A i \in 1..Len(s) : s[i] \in Digits

\* match1 = level_string[0]: IndexError for the empty text.
GetWindSortKeyRaises(level) == Len(level) = 0

Match1(level) == <<level[1]>>

\* match2 = level_string[2] if len(level_string) > 2, '' otherwise.
Match2(level) == IF Len(level) > 2 THEN <<level[3]>> ELSE <<>>

\* get_wind_sort_key(level_string)
GetWindSortKey(level) ==
    IF IsDigit(Match1(level)) /\ IsDigit(Match2(level))
    THEN StrToInt(Match1(level)) * 10 + StrToInt(Match2(level))
    ELSE IF IsDigit(Match1(level)) /\ ~IsDigit(Match2(level))
    THEN StrToInt(Match1(level)) * 10
    ELSE 99

\* sorted(levels, key=get_wind_sort_key): a stable sort.
InsertByKey(sorted, x) ==
    SelectSeq(sorted, LAMBDA y : GetWindSortKey(y) <= GetWindSortKey(x))
        \o <<x>>
        \o SelectSeq(sorted, LAMBDA y : GetWindSortKey(y) > GetWindSortKey(x))

RECURSIVE SortedByKey(_)
SortedByKey(levels) ==
    IF Len(levels) = 0 THEN <<>>
    ELSE InsertByKey(SortedByKey(SubSeq(levels, 1, Len(levels) - 1)),
                     levels[Len(levels)])

\* The sort of the levels of the grouped table: the key of each is taken.
SortedWindLevels(counts, levels) ==
    IF \E i \in 1..Len(levels) : GetWindSortKeyRaises(levels[i])
    THEN [NoAgg EXCEPT !.kind = "wind", !.fatal = TRUE, !.at = "sort"]
    ELSE [NoAgg EXCEPT !.kind = "wind", !.rows = counts,
                       !.order = SortedByKey(levels)]

\* The levels of the day and of the night column.
WindLevels(df, column) ==
    [i \in 1..Len(df) |-> ExtractWindForce(df[i][column])]

\* The wind aggregate of a data frame.
WindCounts(df) ==
    IF \E i \in 1..Len(df) :
           WindForceRaises(df[i][ColDayWind])
               \/ WindForceRaises(df[i][ColNightWind])
    THEN [NoAgg EXCEPT !.kind = "wind", !.fatal = TRUE, !.at = "extract"]
    ELSE SortedWindLevels(
             AnnualCounts(
                 Occurrences(df, WindLevels(df, ColDayWind),
                             WindLevels(df, ColNightWind)),
                 YearsCount(df)),
             UniqueLabels(df, WindLevels(df, ColDayWind),
                          WindLevels(df, ColNightWind)))

\* create_wind_speed_distribution_graph up to the sort of the levels.
WindSpeedDistribution(d) ==
    IF ~d.exists THEN [NoAgg EXCEPT !.kind = "wind"]
    ELSE WindCounts(DataFrame(d))

\* weather_order
WeatherOrder ==
    << <<"qing">>, <<"duo", "yun">>, <<"yin">>,
       <<"xiao", "yu">>, <<"xiao", "dao", "zhong", "yu">>, <<"zhong", "yu">>,
       <<"zhong", "dao", "da", "yu">>, <<"da", "yu">>,
       <<"da", "dao", "bao", "yu">>, <<"da", "bao", "yu">>,
       <<"zhen", "yu">>, <<"lei", "zhen", "yu">>,
       <<"yu", "jia", "xue">>, <<"zhen", "xue">>, <<"xiao", "xue">>,
       <<"xiao", "dao", "zhong", "xue">>, <<"zhong", "xue">>,
       <<"zhong", "dao", "da", "xue">>, <<"da", "xue">>,
       <<"da", "dao", "bao", "xue">>, <<"bao", "xue">> >>

\* w in list
InList(w, list) == \E i \in 1..Len(list) : list[i] = w

\* The labels of the list outside weather_order, as they come.
RemainingWeather(existing) ==
    SelectSeq(existing, LAMBDA w : ~InList(w, WeatherOrder))

\* The remaining labels appended as they come, unsorted.
UnsortedRemaining(existing) == RemainingWeather(existing)

\* sorted(remaining_weather)
SortedRemaining(existing) ==
    SortedTexts({RemainingWeather(existing)[i] :
                    i \in 1..Len(RemainingWeather(existing))})

\* sorted_weather: the labels of weather_order that exist, then the
\* remaining ones, sorted.
SortedWeather(existing) ==
    SelectSeq(WeatherOrder, LAMBDA w : InList(w, existing))
        \o SortedRemaining(existing)

\* The condition aggregate of a data frame.
WeatherCounts(df, day, night) ==
    [NoAgg EXCEPT !.kind = "weather",
                  !.rows = AnnualCounts(Occurrences(df, day, night),
                                        YearsCount(df)),
                  !.order = SortedWeather(UniqueLabels(df, day, night))]

\* create_weather_status_distribution_graph up to the order of the labels.
WeatherStatusDistribution(d) ==
    IF ~d.exists THEN [NoAgg EXCEPT !.kind = "weather"]
    ELSE WeatherCounts(DataFrame(d),
             [i \in 1..Len(DataFrame(d)) |-> DataFrame(d)[i][ColDayWeather]],
             [i \in 1..Len(DataFrame(d)) |-> DataFrame(d)[i][ColNightWeather]])

(***************************************************************************)
(* SpecAgg: the aggregates of the dataset files that two fetches leave: a  *)
(* month of 2011 and a month of 2012.                                      *)
(***************************************************************************)
MaxAggRows == 2   \* data rows of the first page

AggRows == {RowGood, RowOther, RowCondBad, RowTempBad, RowWindBad, RowDash}

\* The file after a fetch by dataset name of the page with these rows.
FileAfter(d, year, month, rows) ==
    FetchWeatherData("name", year, month, Page(rows),
                     [year |-> 2012, month |-> 6], d, <<>>).disk

AggFiles ==
    {NoFile} \cup
    {FileAfter(FileAfter(NoFile, <<"2", "0", "1", "1">>, <<"7">>, t),
               <<"2", "0", "1", "2">>, <<"3">>, u) :
        t \in Tables(AggRows, MaxAggRows), u \in Tables(AggRows, 1)}

InitAgg ==
    /\ now \in Clocks
    /\ disk \in AggFiles
    /\ wb = <<>>
    /\ pc = "idle"
    /\ loop = NoLoop
    /\ log = <<>>
    /\ last = NoCall
    /\ agg = NoAgg

AverageMonthTemperatureGraph ==
    /\ agg' = AverageMonthTemperature(disk)
    /\ UNCHANGED <<now, disk, wb, pc, loop, log, last>>

WindSpeedDistributionGraph ==
    /\ agg' = WindSpeedDistribution(disk)
    /\ UNCHANGED <<now, disk, wb, pc, loop, log, last>>

WeatherStatusDistributionGraph ==
    /\ agg' = WeatherStatusDistribution(disk)
    /\ UNCHANGED <<now, disk, wb, pc, loop, log, last>>

NextAgg ==
    \/ AverageMonthTemperatureGraph
    \/ WindSpeedDistributionGraph
    \/ WeatherStatusDistributionGraph

SpecAgg == InitAgg /\ [][NextAgg]_vars

(***************************************************************************)
(* SpecOrder: the aggregates of dataset files that were not written by     *)
(* the fetcher alone: pd.read_excel reads whatever workbook data/ holds,   *)
(* so a wind or a condition cell is any text, or empty.                    *)
(***************************************************************************)
MaxOrderRows == 2   \* data rows of a sheet

\* A row of the sheet of the 5th of a month of 2011, 10 and 2 degrees.
SheetRow(month, weatherDay, weatherNight, windDay, windNight) ==
    <<<<"2", "0", "1", "1">>, month, <<"5">>, weatherDay, weatherNight,
      <<"1", "0">>, <<"2">>, windDay, windNight>>

\* "<bei><feng> " followed by a level, and "<nan><feng> " followed by one.
North(level) == <<"bei", "feng", " ">> \o level
South(level) == <<"nan", "feng", " ">> \o level

\* "4<ji>", "3<ji>", "3-4<ji>", "12<ji>", "10-11<ji>", "<le>3<ji>",
\* "<wu><chi><xu><feng><xiang>" (no lasting direction) and the empty level
\* of a wind text that ends with its space.
OrderRows ==
    {SheetRow(<<"7">>, <<"yin">>, <<"qing">>,
              North(<<"4", "ji">>),
              South(<<"wu", "chi", "xu", "feng", "xiang">>)),
     SheetRow(<<"1", "0">>, <<"mai">>, <<"yin">>,
              North(<<"3", "ji">>), South(<<"3", "-", "4", "ji">>)),
     SheetRow(<<"7">>, <<"tai", "feng">>, <<"duo", "yun">>,
              North(<<"1", "2", "ji">>), South(<<"le", "3", "ji">>)),
     SheetRow(<<"3">>, <<"xiao", "yu">>, <<"mai">>,
              North(<<>>), South(<<"3", "ji">>)),
     SheetRow(<<"3">>, <<"qing">>, None,
              <<"wei", "feng">>, North(<<"3", "-", "4", "ji">>)),
     SheetRow(<<"1", "0">>, <<"tai", "feng">>, <<"qing">>,
              North(<<"1", "0", "-", "1", "1", "ji">>),
              South(<<"4", "ji">>))}

OrderFiles ==
    {[exists |-> TRUE, rows |-> <<HeaderRow>> \o t] :
        t \in SeqsUpTo(OrderRows, MaxOrderRows)}

InitOrder ==
    /\ now \in Clocks
    /\ disk \in OrderFiles
    /\ wb = <<>>
    /\ pc = "idle"
    /\ loop = NoLoop
    /\ log = <<>>
    /\ last = NoCall
    /\ agg = NoAgg

NextOrder ==
    \/ AverageMonthTemperatureGraph
    \/ WindSpeedDistributionGraph
    \/ WeatherStatusDistributionGraph

SpecOrder == InitOrder /\ [][NextOrder]_vars

(***************************************************************************)
(* What the claims speak of, stated apart from the operators above.        *)
(***************************************************************************)
\* A call of the month fetcher has been made.
Fetched == last.form # "none"

\* The request of the last call is out of range: the year outside
\* [2011, current year], the month outside [1, 12], or a month of the
\* current year after the current month.
OutOfRange ==
    \/ StrToInt(last.year) < 2011
    \/ StrToInt(last.year) > now.year
    \/ StrToInt(last.month) < 1
    \/ StrToInt(last.month) > 12
    \/ (StrToInt(last.year) = now.year /\ StrToInt(last.month) > now.month)

\* The last call's retrieval returned a non-success status or a body
\* without the data table.
FailedRetrieval ==
    /\ Fetched
    /\ last.net = 1
    /\ last.resp.conn
    /\ (last.resp.status # 200 \/ ~last.resp.table)

\* The last call, by dataset name, found the file absent.
CreatedFile == last.form = "name" /\ ~last.diskBefore.exists

\* The date cell holds <nian>, <yue> and <ri> in this order on its first
\* line: the pattern (.*)<nian>(.*)<yue>(.*)<ri> matches.
DateMatches(cell) ==
    \E i, j, k \in 1..Len(FirstLine(cell)) :
        /\ i < j /\ j < k
        /\ cell[i] = "nian" /\ cell[j] = "yue" /\ cell[k] = "ri"

\* The data rows of a table (all but the head) whose date cell matches.
Matching(rows) ==
    {i \in 2..Len(rows) : Len(rows[i].cells) > 0 /\ DateMatches(rows[i].cells[1])}

\* The n-th of them, in the table's order.
NthMatching(rows, n) ==
    CHOOSE i \in Matching(rows) :
        Cardinality({j \in Matching(rows) : j <= i}) = n

\* The last call fetched a page, appended its rows and saved the dataset.
FetchedAndSaved ==
    /\ Fetched
    /\ last.form = "name"
    /\ Len(last.events) > 0
    /\ last.events[Len(last.events)] = "save"

\* C3: a call whose year or month is out of range returns normally,
\* retrieves nothing from the network, leaves the workbook's rows as they
\* were and neither creates nor writes the dataset file.
C3_InvalidRequestHasNoEffect ==
    (Fetched /\ OutOfRange) =>
        /\ ~last.raised
        /\ last.net = 0
        /\ last.events = <<>>
        /\ wb = last.wbBefore
        /\ disk = last.diskBefore

\* A call by name for a month of the current year that is yet to come was
\* made while no dataset file existed.
C3_Witness ==
    /\ last.form = "name"
    /\ StrToInt(last.year) = now.year
    /\ StrToInt(last.month) > now.month
    /\ StrToInt(last.month) <= 12
    /\ ~last.diskBefore.exists

\* C4 as claimed: after a non-success status or a page without the table,
\* the workbook's rows and the dataset file are exactly as before the call.
C4_FailedRetrievalWritesNothing ==
    FailedRetrieval => (wb = last.wbBefore /\ disk = last.diskBefore)

\* C4 as amended: after a non-success status or a page without the table no
\* row is appended and an existing file is not rewritten; the one write is
\* that of a call by dataset name that found no file, which has created the
\* file with the header row alone before the retrieval.
C4_FailedRetrievalOnlyCreates ==
    FailedRetrieval =>
        /\ wb = last.wbBefore
        /\ IF CreatedFile
           THEN /\ disk = [exists |-> TRUE, rows |-> <<HeaderRow>>]
                /\ last.events = <<"create">>
           ELSE /\ disk = last.diskBefore
                /\ last.events = <<>>

\* A call by name got a non-success status while the file held data rows.
C4_Witness ==
    /\ FailedRetrieval
    /\ last.form = "name"
    /\ last.resp.status = 404
    /\ last.diskBefore.exists
    /\ DataRows(last.diskBefore.rows) > 0
    /\ disk = last.diskBefore

\* C5 as claimed: a fetch that is saved to an existing dataset strictly
\* increases the row count.
C5_RowCountStrictlyIncreases ==
    (FetchedAndSaved /\ last.diskBefore.exists) =>
        Len(disk.rows) > Len(last.diskBefore.rows)

\* C5 as amended: after a fetch that is saved to an existing dataset the
\* file holds the header row, then the rows it held before, unchanged and in
\* order, then one row per date-matching row of the page, in the page's
\* order: the row count grows by exactly their number (by zero for a page
\* without a date-matching row), whatever the file already holds.
C5_AppendsOneRowPerMatchingRow ==
    (FetchedAndSaved /\ last.diskBefore.exists) =>
        /\ disk.exists
        /\ disk.rows[1] = HeaderRow
        /\ Len(disk.rows) =
               Len(last.diskBefore.rows)
                   + Cardinality(Matching(last.resp.rows))
        /\ SubSeq(disk.rows, 1, Len(last.diskBefore.rows))
               = last.diskBefore.rows
        /\ \A n \in 1..Cardinality(Matching(last.resp.rows)) :
               disk.rows[Len(last.diskBefore.rows) + n]
                   = StoredRow(RowRecord(
                         last.resp.rows[NthMatching(last.resp.rows, n)].cells,
                         MatchDate(last.resp.rows[
                             NthMatching(last.resp.rows, n)].cells[1]),
                         last.year, PadMonth(last.month)))

\* The same month was fetched again into a file that already held one of
\* its rows, and the page's row was appended after it.
C5_Witness ==
    /\ FetchedAndSaved
    /\ DataRows(last.diskBefore.rows) > 0
    /\ Cardinality(Matching(last.resp.rows)) > 0
    /\ disk.rows[Len(disk.rows)] = last.diskBefore.rows[2]

(***************************************************************************)
(* The rows of a page and the records appended for them.                   *)
(***************************************************************************)
\* The last call retrieved a page that holds the data table.
PageFetched ==
    /\ Fetched
    /\ last.net = 1
    /\ last.resp.conn
    /\ last.resp.status = 200
    /\ last.resp.table

\* The rows of the call's target before and after it: the dataset file's
\* (the header row alone when the call created it) or the workbook's.
TargetBefore ==
    IF last.form = "name"
    THEN IF last.diskBefore.exists THEN last.diskBefore.rows
         ELSE <<HeaderRow>>
    ELSE last.wbBefore

TargetAfter == IF last.form = "name" THEN disk.rows ELSE wb

\* The rows the last call added to its target, as they are stored.
Appended ==
    [n \in 1..(Len(TargetAfter) - Len(TargetBefore)) |->
        StoredRow(TargetAfter[Len(TargetBefore) + n])]

\* The data rows that can be extracted: the date cell matches and the four
\* cells are there.
Extractable(rows) == {i \in Matching(rows) : Len(rows[i].cells) >= 4}

\* The number of "/" in a cell.
Slashes(cell) == Cardinality({i \in 1..Len(cell) : cell[i] = "/"})

\* The parts of a cell with one "/", stripped of surrounding whitespace.
DayPart(cell) == Strip(SubSeq(cell, 1, FirstIndex(cell, "/") - 1))
NightPart(cell) == Strip(SubSeq(cell, FirstIndex(cell, "/") + 1, Len(cell)))

\* A part of the temperature cell without its <degC> suffix.
Degrees(part) ==
    IF Len(part) > 0 /\ part[Len(part)] = "degC"
    THEN SubSeq(part, 1, Len(part) - 1)
    ELSE part

AllDigits(s) == Len(s) > 0 /\ \A i \in 1..Len(s) : s[i] \in Digits

\* A number without its leading zeros.
NoLeadingZeros(s) ==
    SubSeq(s, (CHOOSE i \in 1..(Len(s) + 1) :
                   /\ \A j \in 1..(i - 1) : s[j] = "0"
                   /\ (i <= Len(s) => s[i] # "0")), Len(s))

\* The date cell is <Y><nian><M><yue><D><ri>, Y, M and D numbers.
DatePattern(cell) ==
    /\ Before(cell, "nian", Len(cell) + 1) # {}
    /\ Before(cell, "yue", Len(cell) + 1) # {}
    /\ cell[Len(cell)] = "ri"
    /\ AllDigits(SubSeq(cell, 1, FirstIndex(cell, "nian") - 1))
    /\ AllDigits(SubSeq(cell, FirstIndex(cell, "nian") + 1,
                        FirstIndex(cell, "yue") - 1))
    /\ AllDigits(SubSeq(cell, FirstIndex(cell, "yue") + 1, Len(cell) - 1))

DateY(cell) == SubSeq(cell, 1, FirstIndex(cell, "nian") - 1)
DateM(cell) ==
    SubSeq(cell, FirstIndex(cell, "nian") + 1, FirstIndex(cell, "yue") - 1)
DateD(cell) == SubSeq(cell, FirstIndex(cell, "yue") + 1, Len(cell) - 1)

\* The row is of the claimed form: a date <Y><nian><M><yue><D><ri>, and a
\* condition, a temperature and a wind cell of two parts each.
WellFormed(cells) ==
    /\ Len(cells) >= 4
    /\ DatePattern(cells[1])
    /\ Slashes(cells[2]) = 1
    /\ Slashes(cells[3]) = 1
    /\ Slashes(cells[4]) = 1

\* The record the claim gives a well-formed row.
ClaimedRecord(cells) ==
    StoredRow(<<DateY(cells[1]), NoLeadingZeros(DateM(cells[1])),
                NoLeadingZeros(DateD(cells[1])),
                DayPart(cells[2]), NightPart(cells[2]),
                Degrees(DayPart(cells[3])), Degrees(NightPart(cells[3])),
                DayPart(cells[4]), NightPart(cells[4])>>)

\* The cells of the row the n-th appended record was made from, in a call
\* that went through the whole page.
SourceCells(n) == last.resp.rows[NthMatching(last.resp.rows, n)].cells

\* The last call went through the whole page: one record per matching row.
WholePage ==
    /\ PageFetched
    /\ ~last.raised
    /\ Len(Appended) = Cardinality(Matching(last.resp.rows))

\* C6: every data row of a fetched page that can be extracted adds one
\* record to the target and every other row adds none, whatever rows come
\* before and after it.
C6_BadRowsDoNotStopTheOthers ==
    PageFetched =>
        Len(Appended) = Cardinality(Extractable(last.resp.rows))

\* C7: the record of a well-formed row holds the year, month and day of the
\* row's own date cell and the two parts of each of its other cells,
\* whatever year and month were requested.
C7_RecordFollowsTheRow ==
    WholePage =>
        \A n \in 1..Len(Appended) :
            WellFormed(SourceCells(n)) =>
                Appended[n] = ClaimedRecord(SourceCells(n))

\* The fields of one category for a cell: both empty unless the cell has
\* exactly two parts.
CategoryHolds(cell, day, night, temperature) ==
    IF Slashes(cell) # 1 THEN day = None /\ night = None
    ELSE IF temperature
    THEN /\ day = StoredCell(Degrees(DayPart(cell)))
         /\ night = StoredCell(Degrees(NightPart(cell)))
    ELSE /\ day = StoredCell(DayPart(cell))
         /\ night = StoredCell(NightPart(cell))

\* C10: a call that goes through the page appends one record per matching
\* row, and in each record every category stands for itself: both fields
\* empty when its own cell does not split in two, its cell's two parts
\* otherwise, whatever the other two cells hold.
C10_CategoriesAreIndependent ==
    WholePage =>
        \A n \in 1..Len(Appended) :
            /\ CategoryHolds(SourceCells(n)[2], Appended[n][ColDayWeather],
                             Appended[n][ColNightWeather], FALSE)
            /\ CategoryHolds(SourceCells(n)[3], Appended[n][ColTempHigh],
                             Appended[n][ColTempLow], TRUE)
            /\ CategoryHolds(SourceCells(n)[4], Appended[n][ColDayWind],
                             Appended[n][ColNightWind], FALSE)

\* A record was appended for a row whose temperature cell has three parts:
\* its temperatures are empty, its conditions and winds are not.
C10_Witness ==
    /\ WholePage
    /\ \E n \in 1..Len(Appended) :
           /\ Slashes(SourceCells(n)[3]) = 2
           /\ Appended[n][ColTempHigh] = None
           /\ Appended[n][ColTempLow] = None
           /\ Appended[n][ColDayWeather] # None
           /\ Appended[n][ColNightWind] # None

(***************************************************************************)
(* The year orchestrator's runs.                                           *)
(***************************************************************************)
\* The months whose fetch the run has invoked, in order.
Invoked == SelectSeq(log, LAMBDA e : e.ev = "fetch")

\* The writes of the file the run has made, in order.
Writes == SelectSeq(log, LAMBDA e : e.ev \in {"create", "save"})

\* The run is over: it returned, or an exception left it.
RunOver == pc \in {"done", "raised"}

\* Fetches of the months 1..n, in ascending order.
FetchesUpTo(n) == [m \in 1..n |-> Event("fetch", m)]

\* The events of a whole run.
WholeRun ==
    (IF loop.existed THEN <<>> ELSE <<Event("create", 0)>>)
        \o FetchesUpTo(12) \o <<Event("save", 0)>>

\* C1: whatever fails in a month, the run goes on: when it is over, the
\* twelve months have been fetched and the final save has been made.
C1_FailedMonthNeverAborts ==
    RunOver =>
        /\ Invoked = FetchesUpTo(12)
        /\ Len(log) > 0
        /\ log[Len(log)].ev = "save"

\* C2 as claimed: a run that returns has fetched the months 1..12 in
\* ascending order and has written the file exactly once, after month 12.
C2_WritesExactlyOnce ==
    pc = "done" =>
        /\ Invoked = FetchesUpTo(12)
        /\ Len(Writes) = 1
        /\ log[Len(log)].ev = "save"

\* C2 as amended: the run's events are always a prefix of: the creation of
\* the file with the header row when it was absent, the fetches of months
\* 1..12 in ascending order, one save; the month fetched next is the one
\* after the last fetched; and a run that returns has made them all, and
\* the file holds the workbook the fetches were made on.
C2_OneSaveAfterTheTwelveMonths ==
    pc # "idle" =>
        /\ Len(log) <= Len(WholeRun)
        /\ log = SubSeq(WholeRun, 1, Len(log))
        /\ (pc = "loop" => loop.month = Len(Invoked) + 1)
        /\ (pc = "save" => Invoked = FetchesUpTo(12))
        /\ (pc = "done" => log = WholeRun /\ disk = Save(wb))
        /\ (pc = "done" =>
                Len(Writes) = IF loop.existed THEN 1 ELSE 2)

\* A run that found no file has returned, with rows fetched on the way.
C2_Witness ==
    /\ pc = "done"
    /\ ~loop.existed
    /\ Len(wb) > 1

(***************************************************************************)
(* The aggregates, stated over the rows of the file.                       *)
(***************************************************************************)
\* The rows of the file below the header.
SheetRows == 2..Len(disk.rows)

MonthAt(i) == StrToInt(disk.rows[i][ColMonth])

\* The cell holds a number.
Coercible(cell) ==
    /\ cell # None
    /\ \/ AllDigits(cell)
       \/ (Len(cell) > 1 /\ cell[1] = "-" /\ AllDigits(Tail(cell)))

NumberIn(cell) ==
    IF cell[1] = "-" THEN 0 - StrToInt(Tail(cell)) ELSE StrToInt(cell)

\* The rows of month m with both temperatures numbers.
ValidRows(m) ==
    {i \in SheetRows :
        /\ MonthAt(i) = m
        /\ Coercible(disk.rows[i][ColTempHigh])
        /\ Coercible(disk.rows[i][ColTempLow])}

\* The sum of a column over a set of rows.
RECURSIVE SumOver(_, _)
SumOver(S, col) ==
    IF S = {} THEN 0
    ELSE NumberIn(disk.rows[Max(S)][col]) + SumOver(S \ {Max(S)}, col)

\* The mean of a column over a set of rows.
MeanOver(S, col) == [sum |-> SumOver(S, col), n |-> Cardinality(S)]

\* The number of distinct years in the file.
DistinctYears == Cardinality({disk.rows[i][ColYear] : i \in SheetRows})

\* The force level of a wind text: what follows its last space; a text
\* without a space, or an empty cell, names none.
HasLevel(cell) == cell # None /\ \E i \in 1..Len(cell) : cell[i] = " "
LevelOf(cell) ==
    SubSeq(cell, Max({i \in 1..Len(cell) : cell[i] = " "}) + 1, Len(cell))

\* Row i's cell in column col carries the label, for the aggregate `kind`.
Carries(kind, i, col, label) ==
    IF kind = "wind"
    THEN HasLevel(disk.rows[i][col]) /\ LevelOf(disk.rows[i][col]) = label
    ELSE disk.rows[i][col] # None /\ disk.rows[i][col] = label

DayCol(kind) == IF kind = "wind" THEN ColDayWind ELSE ColDayWeather
NightCol(kind) == IF kind = "wind" THEN ColNightWind ELSE ColNightWeather

\* The day and night entries of month m that carry the label.
EntryCount(kind, m, label) ==
    Cardinality({i \in SheetRows :
                    MonthAt(i) = m /\ Carries(kind, i, DayCol(kind), label)})
    + Cardinality({i \in SheetRows :
                    MonthAt(i) = m /\ Carries(kind, i, NightCol(kind), label)})

\* C8: the wind and the condition aggregate never fail; they hold one line
\* per (month, label) that occurs, with the number of day and night
\* entries of the month that carry the label and that number over the
\* number of distinct years; a file of one year has these equal.
C8_AnnualizedCounts ==
    agg.kind \in {"wind", "weather"} =>
        /\ ~agg.fatal
        /\ \A r \in agg.rows :
               /\ r.count > 0
               /\ r.count = EntryCount(agg.kind, r.month, r.label)
               /\ r.annual = [num |-> r.count, den |-> DistinctYears]
               /\ (DistinctYears = 1 => r.annual = [num |-> r.count, den |-> 1])
               /\ \A q \in agg.rows :
                      (q.month = r.month /\ q.label = r.label) => q = r
        /\ \A i \in SheetRows :
               /\ (agg.kind = "wind" /\ HasLevel(disk.rows[i][ColDayWind])) =>
                      \E r \in agg.rows :
                          /\ r.month = MonthAt(i)
                          /\ r.label = LevelOf(disk.rows[i][ColDayWind])
               /\ (agg.kind = "wind" /\ HasLevel(disk.rows[i][ColNightWind])) =>
                      \E r \in agg.rows :
                          /\ r.month = MonthAt(i)
                          /\ r.label = LevelOf(disk.rows[i][ColNightWind])
               /\ (agg.kind = "weather" /\ disk.rows[i][ColDayWeather] # None) =>
                      \E r \in agg.rows :
                          /\ r.month = MonthAt(i)
                          /\ r.label = disk.rows[i][ColDayWeather]
               /\ (agg.kind = "weather" /\ disk.rows[i][ColNightWeather] # None) =>
                      \E r \in agg.rows :
                          /\ r.month = MonthAt(i)
                          /\ r.label = disk.rows[i][ColNightWeather]

\* C9: the temperature aggregate never fails; it holds a month exactly when
\* a row of the month has both temperatures numbers, once, with the means
\* of the two columns over exactly those rows.
C9_MonthlyMeansOverValidRows ==
    agg.kind = "temperature" =>
        /\ ~agg.fatal
        /\ \A r \in agg.rows : r.month \in 1..12
        /\ \A m \in 1..12 :
               IF ValidRows(m) = {}
               THEN \A r \in agg.rows : r.month # m
               ELSE /\ [month |-> m,
                        high |-> MeanOver(ValidRows(m), ColTempHigh),
                        low |-> MeanOver(ValidRows(m), ColTempLow)]
                            \in agg.rows
                    /\ Cardinality({r \in agg.rows : r.month = m}) = 1

\* The aggregate of a file with two valid rows in July, high temperatures
\* 10 and 0, and a March row whose high temperature is no number: July's
\* mean is 10/2, March is absent.
C9_Witness ==
    /\ agg.kind = "temperature"
    /\ \E r \in agg.rows : r.month = 7 /\ r.high = [sum |-> 10, n |-> 2]
                                       /\ r.low = [sum |-> -2, n |-> 2]
    /\ \E i \in SheetRows :
           MonthAt(i) = 3 /\ ~Coercible(disk.rows[i][ColTempHigh])
                          /\ Coercible(disk.rows[i][ColTempLow])
    /\ \A r \in agg.rows : r.month # 3

(***************************************************************************)
(* The order of the force levels and of the condition labels.              *)
(***************************************************************************)
\* The force levels the file's wind texts name: they reach the sort key.
LevelsPresent ==
    {LevelOf(disk.rows[i][ColDayWind]) :
        i \in {j \in SheetRows : HasLevel(disk.rows[j][ColDayWind])}}
    \cup {LevelOf(disk.rows[i][ColNightWind]) :
        i \in {j \in SheetRows : HasLevel(disk.rows[j][ColNightWind])}}

\* Two digits separated by exactly one character that is no digit.
TwoDigitLabel(label) ==
    /\ Len(label) >= 3
    /\ label[1] \in Digits /\ label[2] \notin Digits /\ label[3] \in Digits

\* The rank the claim gives a label.
ClaimedRank(label) ==
    IF TwoDigitLabel(label)
    THEN DigitVal(label[1]) * 10 + DigitVal(label[3])
    ELSE IF Len(label) > 0 /\ label[1] \in Digits
    THEN DigitVal(label[1]) * 10
    ELSE 99

\* The aggregate's order holds exactly the labels of S, each once.
OrderHoldsExactly(S) ==
    /\ {agg.order[i] : i \in 1..Len(agg.order)} = S
    /\ Len(agg.order) = Cardinality(S)

\* C11: the sort of the force levels never fails, whatever labels reach
\* it, the empty label included; it keeps every label, once, and orders
\* them by the rank d1*10+d2, d1*10 or 99; "3<ji>", "3-4<ji>", "4<ji>" and
\* the label of no lasting direction come out in this order.
C11_SortKeyDefinedForEveryLabel ==
    agg.kind = "wind" =>
        /\ ~agg.fatal
        /\ OrderHoldsExactly(LevelsPresent)
        /\ \A i, j \in 1..Len(agg.order) :
               i < j => ClaimedRank(agg.order[i]) <= ClaimedRank(agg.order[j])
        /\ (LevelsPresent = {<<"3", "ji">>, <<"3", "-", "4", "ji">>,
                             <<"4", "ji">>,
                             <<"wu", "chi", "xu", "feng", "xiang">>})
               => agg.order = << <<"3", "ji">>, <<"3", "-", "4", "ji">>,
                                 <<"4", "ji">>,
                                 <<"wu", "chi", "xu", "feng", "xiang">> >>

\* The condition labels present in the file.
ConditionsPresent ==
    ({disk.rows[i][ColDayWeather] : i \in SheetRows}
     \cup {disk.rows[i][ColNightWeather] : i \in SheetRows}) \ {None}

\* The label is of the canonical vocabulary; its place in it.
Canonical(label) == \E k \in 1..Len(WeatherOrder) : WeatherOrder[k] = label
CanonicalPlace(label) ==
    CHOOSE k \in 1..Len(WeatherOrder) : WeatherOrder[k] = label

\* a comes before b lexicographically: at the first place where they
\* differ a has ended, or holds the glyph of the lower code point.
Lexicographic(a, b) ==
    \E k \in 1..Len(b) :
        /\ k <= Len(a) + 1
        /\ SubSeq(a, 1, k - 1) = SubSeq(b, 1, k - 1)
        /\ (k = Len(a) + 1 \/ CodePoint[a[k]] < CodePoint[b[k]])

\* C12: the condition order holds exactly the labels present, each once;
\* the labels of the canonical vocabulary come first, in the vocabulary's
\* order, and the others follow in lexicographic order; <yin>, <qing>,
\* <tai><feng> come out as <qing>, <yin>, <tai><feng>.
C12_CanonicalFirstThenLexicographic ==
    agg.kind = "weather" =>
        /\ ~agg.fatal
        /\ OrderHoldsExactly(ConditionsPresent)
        /\ \A i, j \in 1..Len(agg.order) :
               i < j =>
                   IF Canonical(agg.order[i])
                   THEN Canonical(agg.order[j]) =>
                            CanonicalPlace(agg.order[i])
                                < CanonicalPlace(agg.order[j])
                   ELSE /\ ~Canonical(agg.order[j])
                        /\ Lexicographic(agg.order[i], agg.order[j])
        /\ (ConditionsPresent = {<<"yin">>, <<"qing">>, <<"tai", "feng">>})
               => agg.order = << <<"qing">>, <<"yin">>, <<"tai", "feng">> >>

\* The conditions of a file whose first row names <mai> and whose second
\* names <tai><feng>, both outside the vocabulary, were ordered: the two
\* follow <duo><yun> and <yin>, <tai><feng> first.
C12_Witness ==
    /\ agg.kind = "weather"
    /\ Len(disk.rows) = 3
    /\ disk.rows[2][ColDayWeather] = <<"mai">>
    /\ disk.rows[3][ColDayWeather] = <<"tai", "feng">>
    /\ agg.order = << <<"duo", "yun">>, <<"yin">>, <<"tai", "feng">>,
                      <<"mai">> >>

=============================================================================
